---- MODULE Spec2Model ----
(***************************************************************************)
(* Model of collector.py: an asyncio pipeline that syntax-validates a list *)
(* of URLs, probes each valid one for liveness (httpx), fetches the alive  *)
(* ones concurrently through an aiohttp_retry RetryClient, extracts        *)
(* title/paragraph records with BeautifulSoup and writes them to a CSV.    *)
(*                                                                         *)
(* Strings are sequences of one-character strings, so that the regular     *)
(* expression of is_valid_url and str.strip are computed, not assumed.     *)
(* Texts of probe responses are sequences of words (the blanks between     *)
(* them are implicit), so that str.lower and the substring test are        *)
(* computed.                                                               *)
(***************************************************************************)
EXTENDS Integers, Sequences, FiniteSets, TLC

VARIABLES
  urls,        \* the input list given to main
  verbose,     \* the -v flag: logging level DEBUG instead of INFO
  pc,          \* position of the main coroutine
  i,           \* index of the URL the validation loop is at
  valid_urls,  \* the list main collects the alive URLs in
  verdict,     \* classification of each input position
  response,    \* response of the probe that has just completed
  ret,         \* return value of the probe that has just completed
  probes,      \* number of probe requests issued per input position
  tasks,       \* the scrape_data coroutines, one per entry of valid_urls
  res,         \* (index, result) pairs of gather, in completion order
  flat_data,   \* the flattened Dataset
  sink,        \* what happened to the CSV file
  log,         \* records that the logging calls of collector.py have emitted
  queue        \* indexes of the tasks that have ended and that gather has not
               \* taken yet, in the order in which they ended

vars == <<urls, verbose, pc, i, valid_urls, verdict, response, ret,
          probes, tasks, res, flat_data, sink, log, queue>>

\* ------------------------------------------------------------------------
\* Bounds
\* ------------------------------------------------------------------------

\* longest input URL list
MaxUrls == 2

\* most headings and most paragraphs of the documents enumerated for the
\* extraction
MaxTitles == 2
MaxParas == 5

\* longest part after "://" of the URLs enumerated for the validator
MaxRest == 2

\* ------------------------------------------------------------------------
\* Strings
\* ------------------------------------------------------------------------

SP == " "
TAB == "\t"
NL == "\n"

\* str.lower / re.IGNORECASE on the characters the model uses
LowerChar(c) ==
  CASE c = "H" -> "h"
    [] c = "T" -> "t"
    [] c = "P" -> "p"
    [] c = "S" -> "s"
    [] OTHER -> c

StartsWithIgnoreCase(s, p) ==
  /\ Len(s) >= Len(p)
  /\ \A n \in 1..Len(p) : LowerChar(s[n]) = LowerChar(p[n])

Drop(s, n) == SubSeq(s, n + 1, Len(s))

\* [^ ]+$ : one or more characters other than the space character, up to the
\* end of the string (a negated class also matches tab and newline)
NonSpaceToEnd(s) ==
  /\ Len(s) >= 1
  /\ \A n \in 1..Len(s) : s[n] # SP

\* ^(?:http|https)://[^ ]+$ with re.IGNORECASE, matched as re.match does:
\* the alternatives of the group are tried in order, each followed by the
\* rest of the pattern
is_valid_url(url) ==
  \E scheme \in {<<"h","t","t","p">>, <<"h","t","t","p","s">>} :
    /\ StartsWithIgnoreCase(url, scheme \o <<":","/","/">>)
    /\ NonSpaceToEnd(Drop(url, Len(scheme) + 3))

\* ------------------------------------------------------------------------
\* Input URLs
\* ------------------------------------------------------------------------

UrlA == <<"h","t","t","p",":","/","/","a">>
UrlB == <<"h","t","t","p","s",":","/","/","b">>
UrlBad == <<"n","o","t","-","a","-","u","r","l">>
\* the URL of the runs that enumerate documents
UrlDocs == <<"h","t","t","p",":","/","/","d">>

\* the URLs of the pipeline runs
UrlPool == {UrlA, UrlB, UrlBad}

RECURSIVE SeqsUpTo(_, _)
SeqsUpTo(S, n) ==
  IF n = 0 THEN {<<>>}
  ELSE LET shorter == SeqsUpTo(S, n - 1)
       IN  shorter \cup {Append(s, x) : s \in {t \in shorter : Len(t) = n - 1}, x \in S}

\* the strings given to the validator: scheme, separator, rest
Schemes == {<<"h","t","t","p">>, <<"h","t","t","p","s">>, <<"H","T","T","P">>,
            <<"f","t","p">>, <<"h","t","t","p","x">>, <<>>}
Separators == {<<":","/","/">>, <<":","/">>, <<>>}
RestChars == {"a", SP, TAB, NL}
UrlStrings == {s \o sep \o r : s \in Schemes, sep \in Separators,
                               r \in SeqsUpTo(RestChars, MaxRest)}

\* ------------------------------------------------------------------------
\* Logging
\* ------------------------------------------------------------------------

\* configure_logging: DEBUG records pass only when verbose
Emitted(level, v) == level # "debug" \/ v

LogTo(l, level, msg, v) ==
  IF Emitted(level, v) THEN Append(l, [level |-> level, msg |-> msg]) ELSE l

\* ------------------------------------------------------------------------
\* Liveness probe
\* ------------------------------------------------------------------------

LowerWord(w) ==
  CASE w \in {"Page", "PAGE"} -> "page"
    [] w \in {"Not", "NOT"} -> "not"
    [] w \in {"Found", "FOUND"} -> "found"
    [] OTHER -> w

Lower(text) == [n \in 1..Len(text) |-> LowerWord(text[n])]

\* the Python operator "in" on two texts
Contains(text, phrase) ==
  \E off \in 0..(Len(text) - Len(phrase)) :
    \A n \in 1..Len(phrase) : text[off + n] = phrase[n]

PageNotFound == <<"page", "not", "found">>

NoResponse == [kind |-> "none", status |-> 0, text |-> <<>>]
ProbeError == [kind |-> "error", status |-> 0, text |-> <<>>]

ProbeStatuses == {200, 201, 404}
ProbeTexts == {<<"hello">>, <<"Page", "Not", "Found">>,
               <<"the", "PAGE", "NOT", "FOUND", "here">>, <<"page", "found">>}

\* what the server may answer to the probe of a URL (after redirects)
ProbeResponses ==
  {ProbeError} \cup
  {[kind |-> "resp", status |-> s, text |-> t] : s \in ProbeStatuses, t \in ProbeTexts}

\* is_url_alive_and_valid, what it logs before it awaits its request
is_url_alive_and_valid_request_log(v) == LogTo(<<>>, "debug", "checking", v)

\* the probe with a case-sensitive test of the phrase
is_url_alive_and_valid_cs(r, v) ==
  LET l0 == <<>>
  IN  IF r.kind = "error"
      THEN [ret |-> FALSE, class |-> "NetworkError",
            log |-> LogTo(l0, "error", "error_checking", v)]
      ELSE IF r.status = 200
           THEN IF Contains(r.text, PageNotFound)
                THEN [ret |-> FALSE, class |-> "SoftNotFound",
                      log |-> LogTo(l0, "warning", "page_not_found", v)]
                ELSE [ret |-> TRUE, class |-> "Alive", log |-> l0]
           ELSE [ret |-> FALSE, class |-> "DeadStatus",
                 log |-> LogTo(l0, "warning", "non_200", v)]

\* the probe whose request is issued inside "if verbose:" only: without
\* verbose the response is unbound and the except clause returns False
is_url_alive_and_valid_ifverbose(r, v) ==
  LET l0 == <<>>
  IN  IF r.kind = "error" \/ ~v
      THEN [ret |-> FALSE, class |-> "NetworkError",
            log |-> LogTo(l0, "error", "error_checking", v)]
      ELSE IF r.status = 200
           THEN IF Contains(Lower(r.text), PageNotFound)
                THEN [ret |-> FALSE, class |-> "SoftNotFound",
                      log |-> LogTo(l0, "warning", "page_not_found", v)]
                ELSE [ret |-> TRUE, class |-> "Alive", log |-> l0]
           ELSE [ret |-> FALSE, class |-> "DeadStatus",
                 log |-> LogTo(l0, "warning", "non_200", v)]

\* is_url_alive_and_valid once its request has ended in r: the returned
\* value, the class of the outcome and the records logged
is_url_alive_and_valid(r, v) ==
  LET l0 == <<>>
  IN  IF r.kind = "error"
      THEN [ret |-> FALSE, class |-> "NetworkError",
            log |-> LogTo(l0, "error", "error_checking", v)]
      ELSE IF r.status = 200
           THEN IF Contains(Lower(r.text), PageNotFound)
                THEN [ret |-> FALSE, class |-> "SoftNotFound",
                      log |-> LogTo(l0, "warning", "page_not_found", v)]
                ELSE [ret |-> TRUE, class |-> "Alive", log |-> l0]
           ELSE [ret |-> FALSE, class |-> "DeadStatus",
                 log |-> LogTo(l0, "warning", "non_200", v)]

\* ------------------------------------------------------------------------
\* Fetched bodies and extraction
\* ------------------------------------------------------------------------

\* str.strip on a text
RECURSIVE LStrip(_)
LStrip(t) == IF t # <<>> /\ Head(t) \in {SP, TAB, NL} THEN LStrip(Tail(t)) ELSE t

RECURSIVE RStrip(_)
RStrip(t) ==
  IF t # <<>> /\ t[Len(t)] \in {SP, TAB, NL} THEN RStrip(SubSeq(t, 1, Len(t) - 1)) ELSE t

Strip(t) == RStrip(LStrip(t))

El(tag, text) == [tag |-> tag, text |-> text]

\* A body is the markup the server sent. kind "empty" is the empty string,
\* "html" a document with the elements elems in document order, "reject" a
\* markup on which the tree builder raises (bs4 ParserRejectedMarkup),
\* "selfail" a document on which walking the tree raises.
BodyEmpty == [kind |-> "empty", elems |-> <<>>]
BodyIntro == [kind |-> "html",
              elems |-> <<El("h1", <<"I">>), El("p", <<SP, "A", SP>>), El("p", <<"B">>)>>]
BodyNews == [kind |-> "html",
             elems |-> <<El("p", <<"C">>), El("div", <<"x">>), El("h2", <<"N", NL>>)>>]
BodyBare == [kind |-> "html", elems |-> <<El("div", <<"x">>)>>]
BodyReject == [kind |-> "reject", elems |-> <<>>]
BodySelFail == [kind |-> "selfail", elems |-> <<El("p", <<"A">>)>>]

Bodies == {BodyEmpty, BodyIntro, BodyNews, BodyBare, BodyReject, BodySelFail}

Digit == <<"1", "2", "3", "4", "5", "6", "7", "8", "9">>

\* the n-th heading and the n-th paragraph of an enumerated document, with
\* blanks around their texts
Heading(n) == El(IF n % 3 = 1 THEN "h1" ELSE IF n % 3 = 2 THEN "h2" ELSE "h3",
                 <<SP, "T", Digit[n]>>)
Paragraph(n) == El("p", <<"P", Digit[n], NL>>)

\* a document with t headings and p paragraphs, the headings before the
\* paragraphs or after them, a div in between
Doc(t, p, headingsFirst) ==
  LET hs == [n \in 1..t |-> Heading(n)]
      ps == [n \in 1..p |-> Paragraph(n)]
      mid == <<El("div", <<"x">>)>>
  IN  [kind |-> "html",
       elems |-> IF headingsFirst THEN hs \o mid \o ps ELSE ps \o mid \o hs]

Docs == {Doc(t, p, f) : t \in 0..MaxTitles, p \in 0..MaxParas, f \in BOOLEAN}

RECURSIVE TextsOf(_, _)
\* the stripped texts of the elements whose tag is in tags, in document order
TextsOf(elems, tags) ==
  IF elems = <<>> THEN <<>>
  ELSE IF Head(elems).tag \in tags
       THEN <<Strip(Head(elems).text)>> \o TextsOf(Tail(elems), tags)
       ELSE TextsOf(Tail(elems), tags)

Max(a, b) == IF a >= b THEN a ELSE b

\* a pairing that stops at the shorter list, as zip does
combined_data_zip(url, titles, paragraphs) ==
  LET len == IF Len(titles) <= Len(paragraphs) THEN Len(titles) ELSE Len(paragraphs)
  IN  [n \in 1..len |->
         [url |-> url, title |-> titles[n], paragraph |-> paragraphs[n]]]

\* the loop of scrape_data that pairs titles and paragraphs by position
combined_data(url, titles, paragraphs) ==
  [n \in 1..Max(Len(titles), Len(paragraphs)) |->
     [url |-> url,
      title |-> IF n <= Len(titles) THEN titles[n] ELSE <<>>,
      paragraph |-> IF n <= Len(paragraphs) THEN paragraphs[n] ELSE <<>>]]

NoHtml == [kind |-> "none", elems |-> <<>>]

\* scrape_data after fetch_url has returned html (NoHtml for None): either
\* the list it returns or the exception that leaves it, and what it logs
scrape_data(url, html) ==
  IF html.kind \in {"none", "empty"}
  THEN [raised |-> FALSE, records |-> <<>>, log |-> <<>>]
  ELSE IF html.kind = "reject"
       THEN [raised |-> TRUE, records |-> <<>>, log |-> <<>>]
       ELSE IF html.kind = "selfail"
            THEN [raised |-> FALSE, records |-> <<>>,
                  log |-> <<[level |-> "error", msg |-> "parsing_error"]>>]
            ELSE LET titles == TextsOf(html.elems, {"h1", "h2", "h3"})
                     paragraphs == TextsOf(html.elems, {"p"})
                 IN  IF titles = <<>> /\ paragraphs = <<>>
                     THEN [raised |-> FALSE, records |-> <<>>,
                           log |-> <<[level |-> "warning", msg |-> "no_titles_or_paragraphs"]>>]
                     ELSE [raised |-> FALSE,
                           records |-> combined_data(url, titles, paragraphs),
                           log |-> <<>>]

\* ------------------------------------------------------------------------
\* Fetch with retries
\* ------------------------------------------------------------------------

\* ExponentialRetry(attempts=3)
Attempts == 3

\* What one request attempt may end in: exc is the exception raised by the
\* request ("none" when a response arrived), status the response status,
\* read what response.text() ends in ("ok", "error" for an exception such
\* as a payload error, "timeout" for asyncio.TimeoutError when the total
\* timeout expires during the read), body the markup.
FetchFailure(exc) == [exc |-> exc, status |-> 0, read |-> "error", body |-> NoHtml]
FetchStatus(status) == [exc |-> "none", status |-> status, read |-> "ok", body |-> BodyEmpty]
FetchBody(status, body) == [exc |-> "none", status |-> status, read |-> "ok", body |-> body]
FetchBroken == [exc |-> "none", status |-> 200, read |-> "error", body |-> NoHtml]
FetchReadTimeout == [exc |-> "none", status |-> 200, read |-> "timeout", body |-> NoHtml]

FetchResponses ==
  {FetchFailure("timeout"), FetchFailure("transport"), FetchBroken, FetchReadTimeout,
   FetchStatus(404), FetchStatus(500), FetchBody(302, BodyNews)}
  \cup {FetchBody(200, b) : b \in Bodies \ {BodyNews}}

\* what the server of a URL may answer to a fetch attempt: the server of
\* UrlB always answers, with one page, a markup that the tree builder
\* rejects or a 404; UrlDocs serves the enumerated documents, a 404, a
\* rejected markup, or does not answer in time; any other server answers
\* in every way listed above
FetchResponsesFor(url) ==
  IF url = UrlB
  THEN {FetchBody(200, BodyIntro), FetchBody(200, BodyReject), FetchStatus(404)}
  ELSE IF url = UrlDocs
  THEN {FetchBody(200, d) : d \in Docs}
       \cup {FetchStatus(404), FetchFailure("timeout"), FetchBody(200, BodyReject)}
  ELSE FetchResponses

\* a retry policy that never stops retrying exceptions and server errors
RetryDecision_unbounded(attempt, r) ==
  IF r.exc # "none" THEN "retry"
  ELSE IF ~(r.status >= 500) THEN "return" ELSE "retry"

\* The retry client of lines 122-123 after attempt number attempt of a
\* request has ended in r: "retry" sleeps and issues the next attempt,
\* "return" hands the response to fetch_url, "raise" lets the exception
\* reach fetch_url. The source fixes attempts=3 and raise_for_status=False
\* and names no statuses and no exception classes, so the rest is the
\* default of aiohttp_retry: an exception is retried, and of the statuses
\* only the server errors (>= 500); the client never raises for a status.
RetryDecision(attempt, r) ==
  IF r.exc # "none"
  THEN IF attempt >= Attempts THEN "raise" ELSE "retry"
  ELSE IF attempt = Attempts \/ ~(r.status >= 500) THEN "return" ELSE "retry"

\* fetch_url once the retry client has returned the response r or raised
\* its exception: the html it returns
fetch_url(r) ==
  IF r.exc # "none" THEN NoHtml
  ELSE IF r.status >= 400 THEN NoHtml
  ELSE IF r.read # "ok" THEN NoHtml
  ELSE r.body

\* fetch_url, what it logs before its request
fetch_url_request_log(v) ==
  LogTo(LogTo(<<>>, "debug", "fetching_url", v), "debug", "request_headers", v)

\* fetch_url, what it logs when the retry client hands it the response r or
\* raises its exception, up to raise_for_status
fetch_url_response_log(r, v) ==
  IF r.exc = "timeout" THEN <<[level |-> "error", msg |-> "timeout_fetching"]>>
  ELSE IF r.exc # "none" THEN <<[level |-> "error", msg |-> "unexpected_error"]>>
  ELSE LET l0 == LogTo(LogTo(<<>>, "debug", "status", v), "debug", "response_headers", v)
       IN  IF r.status >= 400 THEN LogTo(l0, "error", "client_error", v) ELSE l0

\* fetch_url, what it logs when response.text() has returned or raised
fetch_url_read_log(r) ==
  IF r.read = "ok" THEN <<>>
  ELSE IF r.read = "timeout" THEN <<[level |-> "error", msg |-> "timeout_fetching"]>>
  ELSE <<[level |-> "error", msg |-> "unexpected_error"]>>

\* ------------------------------------------------------------------------
\* gather and flatten
\* ------------------------------------------------------------------------

RECURSIVE InsertPair(_, _)
InsertPair(p, s) ==
  IF s = <<>> THEN <<p>>
  ELSE IF p[1] <= Head(s)[1] THEN <<p>> \o s
       ELSE <<Head(s)>> \o InsertPair(p, Tail(s))

RECURSIVE SortPairs(_)
\* sorted(res) on the (index, result) pairs; the indexes are distinct
SortPairs(s) == IF s = <<>> THEN <<>> ELSE InsertPair(Head(s), SortPairs(Tail(s)))

\* gather that keeps the completion order
gather_completion_order(r) == [n \in 1..Len(r) |-> r[n][2]]

\* tqdm_asyncio.gather: the results collected in completion order are
\* returned in the order of the awaitables
gather(r) == LET sorted == SortPairs(r) IN [n \in 1..Len(sorted) |-> sorted[n][2]]

RECURSIVE Flatten(_)
\* [item for sublist in all_results if sublist for item in sublist]
Flatten(all_results) ==
  IF all_results = <<>> THEN <<>>
  ELSE Head(all_results) \o Flatten(Tail(all_results))

\* ------------------------------------------------------------------------
\* The pipeline
\* ------------------------------------------------------------------------

\* A task: st its position ("requesting" a request attempt is in flight,
\* "sleeping" the retry client waits before the next attempt, "reading"
\* response.text() is awaited, "done" scrape_data has returned, "raised" an
\* exception has left it, "cancelled" it was cancelled while running),
\* attempt the number of request attempts issued, hist exception and status
\* of the attempts that have ended, html and outcome what fetch_url
\* returned.
NewTask == [st |-> "requesting", attempt |-> 1, hist |-> <<>>,
            html |-> NoHtml, outcome |-> "pending"]

InitWith(inputs) ==
  /\ urls \in inputs
  /\ verbose \in BOOLEAN
  /\ pc = "loop"
  /\ i = 1
  /\ valid_urls = <<>>
  /\ verdict = [p \in 1..Len(urls) |-> "Unchecked"]
  /\ response = NoResponse
  /\ ret = FALSE
  /\ probes = [p \in 1..Len(urls) |-> 0]
  /\ tasks = <<>>
  /\ res = <<>>
  /\ flat_data = <<>>
  /\ sink = "none"
  /\ log = <<[level |-> "info", msg |-> "checking_urls"]>>
  /\ queue = <<>>

\* the list l with the URL u put in after its first p entries
InsertAt(l, p, u) == SubSeq(l, 1, p) \o <<u>> \o SubSeq(l, p + 1, Len(l))

\* the lists given to main: the lists of up to MaxUrls URLs in which UrlA,
\* the URL of the server that answers in every way, occurs at most once, and
\* the list that names it twice
Inputs ==
  (SeqsUpTo(UrlPool \ {UrlA}, MaxUrls) \ {<<>>})
  \cup UNION {{InsertAt(l, p, UrlA) : p \in 0..Len(l)} :
                l \in SeqsUpTo(UrlPool \ {UrlA}, MaxUrls - 1)}
  \cup {<<UrlA, UrlA>>}

\* runs of the whole pipeline
Init == InitWith(Inputs)

\* runs with one task
RetryInputs == {<<UrlA>>, <<UrlBad>>, <<UrlBad, UrlB>>}
InitRetry == InitWith(RetryInputs)

\* runs on the URL that serves the enumerated documents
ExtractInputs == {<<UrlDocs>>, <<UrlBad>>, <<UrlBad, UrlDocs>>}
InitExtract == InitWith(ExtractInputs)

\* runs on one string of the validator's enumeration
InitValidate == InitWith({<<u>> : u \in UrlStrings})

\* main, loop body for a URL that fails is_valid_url
SkipInvalid ==
  /\ pc = "loop"
  /\ i <= Len(urls)
  /\ ~is_valid_url(urls[i])
  /\ verdict' = [verdict EXCEPT ![i] = "SyntaxInvalid"]
  /\ log' = LogTo(log, "warning", "invalid_url_skipped", verbose)
  /\ i' = i + 1
  /\ UNCHANGED <<urls, verbose, pc, valid_urls, response, ret, probes, tasks,
                 res, flat_data, sink, queue>>

\* the loop body that probes without asking is_valid_url
IssueProbe_unchecked ==
  /\ pc = "loop"
  /\ i <= Len(urls)
  /\ verdict' = [verdict EXCEPT ![i] = "SyntaxValid"]
  /\ probes' = [probes EXCEPT ![i] = @ + 1]
  /\ log' = log \o is_url_alive_and_valid_request_log(verbose)
  /\ pc' = "probing"
  /\ UNCHANGED <<urls, verbose, i, valid_urls, response, ret, tasks, res,
                 flat_data, sink, queue>>

\* main, loop body for a URL that passes is_valid_url: is_url_alive_and_valid
\* runs up to the request that it awaits and has logged its DEBUG record
IssueProbe ==
  /\ pc = "loop"
  /\ i <= Len(urls)
  /\ is_valid_url(urls[i])
  /\ verdict' = [verdict EXCEPT ![i] = "SyntaxValid"]
  /\ probes' = [probes EXCEPT ![i] = @ + 1]
  /\ log' = log \o is_url_alive_and_valid_request_log(verbose)
  /\ pc' = "probing"
  /\ UNCHANGED <<urls, verbose, i, valid_urls, response, ret, tasks, res,
                 flat_data, sink, queue>>

\* is_url_alive_and_valid from the completion of its request to its return
ProbeCompletes ==
  /\ pc = "probing"
  /\ \E r \in ProbeResponses :
       LET out == is_url_alive_and_valid(r, verbose)
       IN  /\ response' = r
           /\ ret' = out.ret
           /\ verdict' = [verdict EXCEPT ![i] = out.class]
           /\ log' = log \o out.log
  /\ pc' = "probed"
  /\ UNCHANGED <<urls, verbose, i, valid_urls, probes, tasks, res, flat_data, sink,
                 queue>>

\* the loop body that keeps the URL whatever the probe returned
Collect_always ==
  /\ pc = "probed"
  /\ valid_urls' = Append(valid_urls, urls[i])
  /\ response' = NoResponse
  /\ ret' = FALSE
  /\ i' = i + 1
  /\ pc' = "loop"
  /\ UNCHANGED <<urls, verbose, verdict, probes, tasks, res, flat_data, sink, log,
                 queue>>

\* the loop that probes the same occurrence again after a failed probe
Collect_retry ==
  /\ pc = "probed"
  /\ valid_urls' = IF ret THEN Append(valid_urls, urls[i]) ELSE valid_urls
  /\ response' = NoResponse
  /\ ret' = FALSE
  /\ i' = IF ret THEN i + 1 ELSE i
  /\ pc' = "loop"
  /\ UNCHANGED <<urls, verbose, verdict, probes, tasks, res, flat_data, sink, log,
                 queue>>

\* the loop that keeps a URL only when it is not yet in valid_urls
Collect_dedup ==
  /\ pc = "probed"
  /\ valid_urls' = IF ret /\ ~(\E n \in 1..Len(valid_urls) : valid_urls[n] = urls[i])
                    THEN Append(valid_urls, urls[i]) ELSE valid_urls
  /\ response' = NoResponse
  /\ ret' = FALSE
  /\ i' = i + 1
  /\ pc' = "loop"
  /\ UNCHANGED <<urls, verbose, verdict, probes, tasks, res, flat_data, sink, log,
                 queue>>

\* main, the rest of the loop body: keep the URL if the probe returned True
Collect ==
  /\ pc = "probed"
  /\ valid_urls' = IF ret THEN Append(valid_urls, urls[i]) ELSE valid_urls
  /\ response' = NoResponse
  /\ ret' = FALSE
  /\ i' = i + 1
  /\ pc' = "loop"
  /\ UNCHANGED <<urls, verbose, verdict, probes, tasks, res, flat_data, sink, log,
                 queue>>

\* main, after the loop with no URL kept
ExitNoAlive ==
  /\ pc = "loop"
  /\ i > Len(urls)
  /\ valid_urls = <<>>
  /\ log' = LogTo(log, "warning", "no_valid_alive_urls", verbose)
  /\ pc' = "done_noalive"
  /\ UNCHANGED <<urls, verbose, i, valid_urls, verdict, response, ret, probes,
                 tasks, res, flat_data, sink, queue>>

RECURSIVE StartLog(_, _)
\* what the first n tasks log when gather starts them one after the other:
\* each runs fetch_url up to its request
StartLog(n, v) ==
  IF n = 0 THEN <<>> ELSE StartLog(n - 1, v) \o fetch_url_request_log(v)

\* main without the early return: the retry client is created even when no
\* URL was kept
Launch_always ==
  /\ pc = "loop"
  /\ i > Len(urls)
  /\ tasks' = [k \in 1..Len(valid_urls) |-> NewTask]
  /\ log' = log \o StartLog(Len(valid_urls), verbose)
  /\ pc' = "gather"
  /\ UNCHANGED <<urls, verbose, i, valid_urls, verdict, response, ret, probes,
                 res, flat_data, sink, queue>>

\* tasks created as soon as one URL has survived, before the loop has ended
Launch_early ==
  /\ pc = "loop"
  /\ valid_urls # <<>>
  /\ tasks' = [k \in 1..Len(valid_urls) |-> NewTask]
  /\ log' = log \o StartLog(Len(valid_urls), verbose)
  /\ pc' = "gather"
  /\ UNCHANGED <<urls, verbose, i, valid_urls, verdict, response, ret, probes,
                 res, flat_data, sink, queue>>

\* main, after the loop: one scrape_data task per kept URL under one
\* RetryClient; gather starts the tasks and every task runs up to its first
\* request
Launch ==
  /\ pc = "loop"
  /\ i > Len(urls)
  /\ valid_urls # <<>>
  /\ tasks' = [k \in 1..Len(valid_urls) |-> NewTask]
  /\ log' = log \o StartLog(Len(valid_urls), verbose)
  /\ pc' = "gather"
  /\ UNCHANGED <<urls, verbose, i, valid_urls, verdict, response, ret, probes,
                 res, flat_data, sink, queue>>

\* a task that has not ended
Running(t) == t.st \in {"requesting", "sleeping", "reading"}

\* what task k has returned
Returned(k) == scrape_data(valid_urls[k], tasks[k].html).records

\* the completion queue of gather after task k has ended: nothing takes
\* from it any more once an exception has left gather
Completed(k) == IF pc = "gather" THEN Append(queue, k) ELSE queue

\* task k (scrape_data, in fetch_url, in the retry client): its request
\* attempt ends in r. The retry client starts its backoff sleep, or hands
\* the response to fetch_url, which goes on to read the body or returns
\* None after raise_for_status, or raises the exception, after which
\* fetch_url returns None; on None scrape_data returns [].
AttemptEnds(k, r) ==
  /\ pc \in {"gather", "unwinding"}
  /\ tasks[k].st = "requesting"
  /\ LET t == tasks[k]
         h == Append(t.hist, [exc |-> r.exc, status |-> r.status])
         decision == RetryDecision(t.attempt, r)
     IN  IF decision = "retry"
         THEN /\ tasks' = [tasks EXCEPT ![k] = [t EXCEPT !.st = "sleeping", !.hist = h]]
              /\ UNCHANGED <<queue, log>>
         ELSE /\ log' = log \o fetch_url_response_log(r, verbose)
              /\ IF decision = "return" /\ r.status < 400
                 THEN /\ tasks' = [tasks EXCEPT ![k] =
                                     [t EXCEPT !.st = "reading", !.hist = h]]
                      /\ UNCHANGED queue
                 ELSE /\ tasks' = [tasks EXCEPT ![k] =
                                     [t EXCEPT !.st = "done", !.hist = h,
                                               !.outcome = "Failed"]]
                      /\ queue' = Completed(k)
  /\ UNCHANGED <<urls, verbose, pc, i, valid_urls, verdict, response, ret, probes,
                 res, flat_data, sink>>

\* task k, in the retry client: the backoff sleep is over and the next
\* request attempt is issued
BackoffEnds(k) ==
  /\ pc \in {"gather", "unwinding"}
  /\ tasks[k].st = "sleeping"
  /\ tasks' = [tasks EXCEPT ![k] = [@ EXCEPT !.st = "requesting", !.attempt = @ + 1]]
  /\ UNCHANGED <<urls, verbose, pc, i, valid_urls, verdict, response, ret, probes,
                 res, flat_data, sink, log, queue>>

\* task k: response.text() returns the body of r or raises, fetch_url
\* returns and scrape_data runs to its end: it returns its records or the
\* exception of the tree builder leaves it; either way the task has ended
BodyRead(k, r) ==
  /\ pc \in {"gather", "unwinding"}
  /\ tasks[k].st = "reading"
  /\ r.exc = "none"
  /\ r.status = tasks[k].hist[Len(tasks[k].hist)].status
  /\ LET html == fetch_url(r)
         out == scrape_data(valid_urls[k], html)
         t == [tasks[k] EXCEPT !.html = html,
                               !.outcome = IF html = NoHtml THEN "Failed" ELSE "Body"]
     IN  /\ log' = log \o fetch_url_read_log(r) \o out.log
         /\ tasks' = [tasks EXCEPT ![k] =
                        [t EXCEPT !.st = IF out.raised THEN "raised" ELSE "done"]]
  /\ queue' = Completed(k)
  /\ UNCHANGED <<urls, verbose, pc, i, valid_urls, verdict, response, ret, probes,
                 res, flat_data, sink>>

\* main, in gather, woken up: it takes from the completion queue the task
\* that ended first, or the first few when several have ended before it
\* runs, in the order in which they ended, and keeps the pair of each; the
\* exception of a task that has raised leaves gather and main, and the exit
\* of the retry client begins
GatherTakes ==
  /\ pc = "gather"
  /\ queue # <<>>
  /\ \E taken \in 1..Len(queue) :
       LET bad == {n \in 1..taken : tasks[queue[n]].st = "raised"}
           stop == IF bad = {} THEN taken + 1
                   ELSE CHOOSE n \in bad : \A m \in bad : n <= m
       IN  /\ res' = res \o [n \in 1..(stop - 1) |-> <<queue[n], Returned(queue[n])>>]
           /\ pc' = IF bad = {} THEN "gather" ELSE "unwinding"
           /\ queue' = IF bad = {} THEN SubSeq(queue, taken + 1, Len(queue)) ELSE <<>>
  /\ UNCHANGED <<urls, verbose, i, valid_urls, verdict, response, ret, probes,
                 tasks, flat_data, sink, log>>

\* asyncio.run, after the exception of a task has left main through gather
\* and through the exit of the retry client: the tasks that are still
\* running are cancelled and the exception leaves the program
CancelRemaining ==
  /\ pc = "unwinding"
  /\ tasks' = [k \in 1..Len(tasks) |->
                 IF Running(tasks[k]) THEN [tasks[k] EXCEPT !.st = "cancelled"]
                 ELSE tasks[k]]
  /\ pc' = "crashed"
  /\ UNCHANGED <<urls, verbose, i, valid_urls, verdict, response, ret, probes,
                 res, flat_data, sink, log, queue>>

Step == \E k \in 1..Len(tasks) : \E r \in FetchResponsesFor(valid_urls[k]) : AttemptEnds(k, r)

Backoff == \E k \in 1..Len(tasks) : BackoffEnds(k)

Read == \E k \in 1..Len(tasks) : \E r \in FetchResponsesFor(valid_urls[k]) : BodyRead(k, r)

\* main, after gather has returned: nothing was scraped
FinishEmpty ==
  /\ pc = "gather"
  /\ Len(res) = Len(tasks)
  /\ Flatten(gather(res)) = <<>>
  /\ flat_data' = <<>>
  /\ log' = LogTo(log, "warning", "no_data_scraped", verbose)
  /\ pc' = "done_nodata"
  /\ UNCHANGED <<urls, verbose, i, valid_urls, verdict, response, ret, probes,
                 tasks, res, sink, queue>>

\* flatten and to_csv run on what has been collected so far, without
\* waiting for gather
FinishSave_early(ok) ==
  /\ pc = "gather"
  /\ Flatten(gather(res)) # <<>>
  /\ flat_data' = Flatten(gather(res))
  /\ sink' = IF ok THEN "written" ELSE "failed"
  /\ log' = IF ok THEN LogTo(log, "info", "data_saved", verbose)
                  ELSE LogTo(log, "error", "failed_to_save", verbose)
  /\ pc' = "done_saved"
  /\ UNCHANGED <<urls, verbose, i, valid_urls, verdict, response, ret, probes,
                 tasks, res, queue>>

\* main, after gather has returned: the records are written to the CSV
\* file, which succeeds or raises
FinishSave(ok) ==
  /\ pc = "gather"
  /\ Len(res) = Len(tasks)
  /\ Flatten(gather(res)) # <<>>
  /\ flat_data' = Flatten(gather(res))
  /\ sink' = IF ok THEN "written" ELSE "failed"
  /\ log' = IF ok THEN LogTo(log, "info", "data_saved", verbose)
                  ELSE LogTo(log, "error", "failed_to_save", verbose)
  /\ pc' = "done_saved"
  /\ UNCHANGED <<urls, verbose, i, valid_urls, verdict, response, ret, probes,
                 tasks, res, queue>>

Save == \E ok \in BOOLEAN : FinishSave(ok)

Next ==
  \/ SkipInvalid
  \/ IssueProbe
  \/ ProbeCompletes
  \/ Collect
  \/ ExitNoAlive
  \/ Launch
  \/ Step
  \/ Backoff
  \/ Read
  \/ GatherTakes
  \/ CancelRemaining
  \/ FinishEmpty
  \/ Save

Spec == Init /\ [][Next]_vars

SpecRetry == InitRetry /\ [][Next]_vars

SpecValidate == InitValidate /\ [][Next]_vars

SpecExtract == InitExtract /\ [][Next]_vars

\* ------------------------------------------------------------------------
\* Vocabulary of the properties
\* ------------------------------------------------------------------------

Finished == pc \in {"done_nodata", "done_saved"}

Positions == 1..Len(urls)

TaskIds == 1..Len(tasks)

\* the number of the task launched for the occurrence at input position p,
\* when that occurrence was classified Alive
TaskOf(p) == Cardinality({q \in 1..p : verdict[q] = "Alive"})

\* what gather collected from task k
ResultOf(k) == res[CHOOSE n \in 1..Len(res) : res[n][1] = k][2]

RECURSIVE AliveUrls(_)
\* the URLs at the first n input positions that were classified Alive
AliveUrls(n) ==
  IF n = 0 THEN <<>>
  ELSE IF verdict[n] = "Alive" THEN Append(AliveUrls(n - 1), urls[n])
       ELSE AliveUrls(n - 1)

RECURSIVE ByPosition(_)
\* the records of the first n input positions, position after position
ByPosition(n) ==
  IF n = 0 THEN <<>>
  ELSE ByPosition(n - 1) \o (IF verdict[n] = "Alive" THEN ResultOf(TaskOf(n)) ELSE <<>>)

IsIn(x, s) == \E n \in 1..Len(s) : s[n] = x

\* ------------------------------------------------------------------------
\* Properties
\* ------------------------------------------------------------------------

\* C1: a failure inside one URL's task never cancels a sibling task, and
\* once main has stopped every record that a task returned is in the Dataset.
C1_FailureIsolation ==
  /\ \A k \in TaskIds : tasks[k].st # "cancelled"
  /\ (pc \in {"done_nodata", "done_saved", "crashed"}) =>
       \A k \in TaskIds :
         tasks[k].st = "done" =>
           \A m \in 1..Len(Returned(k)) : IsIn(Returned(k)[m], flat_data)

\* C2: the Dataset is the concatenation, in input order of the URL
\* occurrences, of the record sequences their tasks returned, whatever the
\* order in which the tasks completed.
C2_DatasetInInputOrder ==
  Finished => flat_data = ByPosition(Len(urls))

\* two tasks contributed different records and the later one completed first
C2_Witness ==
  /\ pc = "done_saved"
  /\ Len(res) = 2
  /\ res[1][1] = 2
  /\ res[1][2] # <<>>
  /\ res[2][2] # <<>>
  /\ res[1][2] # res[2][2]

\* C3: every record of the Dataset has the URL of an input occurrence that
\* passed is_valid_url and whose probe was classified Alive, and the URLs
\* kept for fetching are exactly the occurrences classified Alive, in order.
C3_RecordsFromAliveUrls ==
  /\ \A j \in 1..Len(flat_data) :
        \E p \in Positions : /\ urls[p] = flat_data[j].url
                              /\ is_valid_url(urls[p])
                              /\ verdict[p] = "Alive"
  /\ valid_urls = AliveUrls(i - 1)
  /\ Len(tasks) \in {0, Len(valid_urls)}
  /\ \A k \in TaskIds : \E p \in Positions : urls[p] = valid_urls[k] /\ verdict[p] = "Alive"

\* a Dataset was written in a run in which a valid URL failed its probe
C3_Witness ==
  /\ pc = "done_saved"
  /\ flat_data # <<>>
  /\ \E p \in Positions : verdict[p] \in {"DeadStatus", "SoftNotFound", "NetworkError"}

\* C4: no exception raised while a fetched body is turned into records
\* leaves scrape_data.
C4_ParsingErrorsCaught ==
  /\ \A k \in TaskIds : tasks[k].st # "raised"
  /\ pc # "crashed"

\* an attempt that ended in a response that raise_for_status accepts
Succeeded(e) == e.exc = "none" /\ e.status < 400

\* C5: a task issues at most 3 request attempts, and exactly one when the
\* first attempt brings a 2xx/3xx response.
C5_AtMostThreeAttempts ==
  \A k \in TaskIds :
    /\ tasks[k].attempt <= 3
    /\ Len(tasks[k].hist) <= 3
    /\ (Len(tasks[k].hist) >= 1 /\ Succeeded(tasks[k].hist[1])) =>
         (tasks[k].attempt = 1 /\ Len(tasks[k].hist) = 1 /\ tasks[k].st # "requesting")

\* a task has used all three attempts
C5_Witness ==
  \E k \in TaskIds : tasks[k].st = "done" /\ tasks[k].attempt = 3 /\ Len(tasks[k].hist) = 3

\* an attempt that ended in an exception of the request or in a 5xx response
FailedTransiently(e) == e.exc \in {"timeout", "transport"} \/ (e.exc = "none" /\ e.status >= 500)

\* an attempt that ended in an exception or in a 4xx or 5xx response
FailedAnyhow(e) == e.exc \in {"timeout", "transport"} \/ (e.exc = "none" /\ e.status >= 400)

\* C6: every failed fetch attempt is handled by the retry layer. An attempt
\* n < 3 that ended in a 4xx or 5xx response, a timeout or a transport
\* error is followed by attempt n+1 (the task has issued it, or is in the
\* backoff sleep that precedes it), and the outcome Failed is produced only
\* after 3 attempts have been used.
C6_FailedAttemptsRetried ==
  \A k \in TaskIds :
    /\ \A n \in 1..Len(tasks[k].hist) :
          (n < Attempts /\ FailedAnyhow(tasks[k].hist[n])) =>
            \/ tasks[k].attempt >= n + 1
            \/ n = Len(tasks[k].hist) /\ tasks[k].st = "sleeping"
    /\ tasks[k].outcome = "Failed" =>
          (tasks[k].attempt = Attempts /\ Len(tasks[k].hist) = Attempts)

\* the validity that C8 states: http or https, "://", then one or more
\* characters none of which is a space, a tab or a newline
StatedValid(u) ==
  \E n \in {4, 5} :
    /\ Len(u) > n + 3
    /\ [m \in 1..n |-> LowerChar(u[m])] \in {<<"h","t","t","p">>, <<"h","t","t","p","s">>}
    /\ SubSeq(u, n + 1, n + 3) = <<":","/","/">>
    /\ \A m \in (n + 4)..Len(u) : u[m] \notin {SP, TAB, NL}

\* C8: a URL passes is_valid_url iff it is http or https, "://" and one or
\* more non-whitespace characters.
C8_ValidIffNoWhitespace ==
  \A p \in Positions :
    verdict[p] # "Unchecked" => ((verdict[p] # "SyntaxInvalid") <=> StatedValid(urls[p]))

\* C9: no probe and no fetch is ever issued for a URL classified
\* SyntaxInvalid, each such URL is skipped with one warning, and a run whose
\* URLs are all SyntaxInvalid ends with no request, no task and no Dataset.
C9_NoRequestForInvalid ==
  /\ \A p \in Positions :
        ~is_valid_url(urls[p]) =>
          /\ probes[p] = 0
          /\ verdict[p] \in {"Unchecked", "SyntaxInvalid"}
          /\ p < i => verdict[p] = "SyntaxInvalid"
          /\ ~IsIn(urls[p], valid_urls)
  /\ Cardinality({n \in 1..Len(log) : log[n].msg = "invalid_url_skipped"})
       = Cardinality({p \in Positions : verdict[p] = "SyntaxInvalid"})
  /\ (\A p \in Positions : verdict[p] = "SyntaxInvalid") =>
        /\ pc \in {"loop", "done_noalive"}
        /\ tasks = <<>>
        /\ flat_data = <<>>
        /\ sink = "none"
        /\ \A p \in Positions : probes[p] = 0

\* a run on two SyntaxInvalid URLs has ended
C9_Witness ==
  /\ pc = "done_noalive"
  /\ Len(urls) = 2
  /\ \A p \in Positions : verdict[p] = "SyntaxInvalid"

\* the phrase in any letter case
AnyCasePhrase(text) ==
  \E off \in 0..(Len(text) - 3) :
    /\ text[off + 1] \in {"page", "Page", "PAGE"}
    /\ text[off + 2] \in {"not", "Not", "NOT"}
    /\ text[off + 3] \in {"found", "Found", "FOUND"}

\* C10: the probe returns True (Alive) iff a response arrived, its status is
\* 200 and its text does not contain "page not found" in any letter case;
\* a URL none of whose occurrences is Alive has no record in the Dataset.
C10_AliveIffLive200 ==
  /\ pc = "probed" =>
        /\ ret <=> (response.kind = "resp" /\ response.status = 200
                     /\ ~AnyCasePhrase(response.text))
        /\ ret <=> (verdict[i] = "Alive")
  /\ \A p \in Positions :
        (\A q \in Positions : urls[q] = urls[p] => verdict[q] # "Alive") =>
          /\ \A j \in 1..Len(flat_data) : flat_data[j].url # urls[p]
          /\ ~IsIn(urls[p], valid_urls)

\* scenario D: of two URLs one was a soft 404, the other gave the Dataset
C10_Witness ==
  /\ pc = "done_saved"
  /\ Len(urls) = 2
  /\ \E p, q \in Positions : verdict[p] = "SoftNotFound" /\ verdict[q] = "Alive"
  /\ flat_data # <<>>
  /\ \A j \in 1..Len(flat_data) : \E q \in Positions :
        verdict[q] = "Alive" /\ flat_data[j].url = urls[q]

\* the title list and the paragraph list of a fetched document
TitlesOf(html) == TextsOf(html.elems, {"h1", "h2", "h3"})
ParagraphsOf(html) == TextsOf(html.elems, {"p"})

\* C11: a task that has fetched a document with title list T and paragraph
\* list P returns exactly max(|T|, |P|) records (none when both are empty);
\* record n has the task's URL, T[n] or the empty string when T is shorter,
\* and P[n] or the empty string when P is shorter.
C11_PositionalPairing ==
  \A k \in TaskIds :
    (tasks[k].st = "done" /\ tasks[k].html.kind = "html") =>
      LET T == TitlesOf(tasks[k].html)
          P == ParagraphsOf(tasks[k].html)
          recs == Returned(k)
      IN  /\ \A n \in 1..Len(res) : res[n][1] = k => res[n][2] = recs
          /\ Len(recs) = (IF Len(T) >= Len(P) THEN Len(T) ELSE Len(P))
          /\ \A n \in 1..Len(recs) :
                /\ recs[n].url = valid_urls[k]
                /\ recs[n].title = (IF n <= Len(T) THEN T[n] ELSE <<>>)
                /\ recs[n].paragraph = (IF n <= Len(P) THEN P[n] ELSE <<>>)

\* a document with 2 headings and 5 paragraphs has given 5 records, the
\* first two with their titles, the last three with empty titles
C11_Witness ==
  \E k \in TaskIds :
    /\ tasks[k].st = "done"
    /\ tasks[k].html.kind = "html"
    /\ Len(TitlesOf(tasks[k].html)) = 2
    /\ Len(ParagraphsOf(tasks[k].html)) = 5
    /\ Len(Returned(k)) = 5
    /\ Returned(k)[2].title = <<"T", "2">>
    /\ Returned(k)[3].title = <<>>
    /\ Returned(k)[5].title = <<>>
    /\ Returned(k)[5].paragraph = <<"P", "5">>

\* the validation loop is over and no occurrence was classified Alive
NoneAlive == i > Len(urls) /\ \A p \in Positions : verdict[p] # "Alive"

LastLog == log[Len(log)]

\* what C12 says of a run without an Alive URL and of an empty Dataset
BatchEmpty ==
  /\ NoneAlive => /\ pc \in {"loop", "done_noalive"}
                  /\ tasks = <<>>
                  /\ sink = "none"
  /\ pc = "done_noalive" => NoneAlive /\ LastLog.msg = "no_valid_alive_urls"
  /\ (Finished /\ flat_data = <<>>) =>
        /\ pc = "done_nodata"
        /\ sink = "none"
        /\ LastLog = [level |-> "warning", msg |-> "no_data_scraped"]

\* C12 as stated: without an Alive URL the run ends without retry client
\* and without fetch; an empty Dataset ends the run with a warning and no
\* file; and the file is written iff the flattened Dataset is not empty.
C12_Original ==
  /\ BatchEmpty
  /\ pc \in {"done_noalive", "done_nodata", "done_saved"} =>
        (sink = "written" <=> flat_data # <<>>)

\* C12 amended: the same, but the Dataset is handed to to_csv iff it is not
\* empty, and the file is written unless to_csv raises, which is logged as
\* an error and ends the run normally.
C12_BatchEmpty ==
  /\ BatchEmpty
  /\ pc \in {"done_noalive", "done_nodata", "done_saved"} =>
        /\ sink # "none" <=> flat_data # <<>>
        /\ sink = "failed" => LastLog = [level |-> "error", msg |-> "failed_to_save"]
        /\ sink = "written" => LastLog = [level |-> "info", msg |-> "data_saved"]
  /\ sink # "none" => pc = "done_saved"

\* a run whose tasks returned no record has ended with the warning
C12_Witness ==
  /\ pc = "done_nodata"
  /\ tasks # <<>>
  /\ sink = "none"
  /\ LastLog.msg = "no_data_scraped"

RECURSIVE FromResponses(_)
\* the Dataset as a function of the URL list and of the responses alone:
\* for each of the first n input positions whose probe response made it
\* Alive, the records of the body its fetch ended with
FromResponses(n) ==
  IF n = 0 THEN <<>>
  ELSE FromResponses(n - 1) \o
       (IF verdict[n] = "Alive"
        THEN scrape_data(urls[n], tasks[TaskOf(n)].html).records
        ELSE <<>>)

\* C13: two runs on the same URL list in which every request receives the
\* same response produce the same Dataset, whatever the completion order of
\* the tasks. Stated on one run: the Dataset of a finished run is the value
\* of a function of the URL list and of the responses received, in which
\* the completion order does not occur; and whether a run ends with a
\* Dataset at all depends on the bodies received only.
C13_DatasetDeterminedByResponses ==
  /\ Finished => /\ flat_data = FromResponses(Len(urls))
                 /\ \A k \in TaskIds : tasks[k].html.kind # "reject"
  /\ pc \in {"unwinding", "crashed"} => \E k \in TaskIds : tasks[k].html.kind = "reject"

\* two tasks received different documents and the second completed first
C13_Witness ==
  /\ Finished
  /\ Len(tasks) = 2
  /\ tasks[1].html.kind = "html"
  /\ tasks[2].html.kind = "html"
  /\ tasks[1].html # tasks[2].html
  /\ res[1][1] = 2
  /\ flat_data = scrape_data(valid_urls[1], tasks[1].html).records
                  \o scrape_data(valid_urls[2], tasks[2].html).records
  /\ flat_data # <<>>

\* C14: a run stops only in a clean terminal state (no surviving URL, empty
\* Dataset, or Dataset handed to the sink) with every launched task
\* completed; main is never left by an unhandled exception.
C14_CleanTermination ==
  (~ENABLED Next) =>
    /\ pc \in {"done_noalive", "done_nodata", "done_saved"}
    /\ \A k \in TaskIds : tasks[k].st = "done"

\* C15: the run with verbose and the run without it issue the same
\* requests and produce the same Dataset for the same URL list and the same
\* responses. Stated on one run: the return value of every probe, the
\* number of probes of every position, the number of fetch attempts of
\* every task and the Dataset are the values of functions of the URL list
\* and of the responses received in which verbose does not occur.
C15_VerboseNotInControlFlow ==
  /\ pc = "probed" =>
        ret = (response.kind = "resp" /\ response.status = 200
               /\ ~AnyCasePhrase(response.text))
  /\ \A p \in Positions :
        probes[p] = (IF verdict[p] \in {"Unchecked", "SyntaxInvalid"} THEN 0 ELSE 1)
  /\ \A k \in TaskIds :
        LET h == tasks[k].hist
            st == tasks[k].st
            retried(n) == n < Attempts /\ FailedTransiently(h[n])
        IN  /\ st # "cancelled" =>
                  tasks[k].attempt = Len(h) + (IF st = "requesting" THEN 1 ELSE 0)
            /\ tasks[k].attempt \in {Len(h), Len(h) + 1}
            /\ \A n \in 1..Len(h) :
                  /\ n < Len(h) => retried(n)
                  /\ (n = Len(h) /\ st \in {"requesting", "sleeping"}) => retried(n)
                  /\ (n = Len(h) /\ st \in {"reading", "done", "raised"}) => ~retried(n)
  /\ Finished => flat_data = FromResponses(Len(urls))

\* a verbose run has emitted debug records, has retried a fetch and has
\* produced a Dataset
C15_Witness ==
  /\ verbose
  /\ Finished
  /\ flat_data # <<>>
  /\ \E n \in 1..Len(log) : log[n].level = "debug"
  /\ \E k \in TaskIds : tasks[k].attempt >= 2

\* the positions whose probe has been issued and has not finished
InFlightProbes == {p \in Positions : probes[p] > 0 /\ verdict[p] = "SyntaxValid"}

\* the positions whose probe has finished without classifying the URL Alive
FailedProbes ==
  {p \in Positions : verdict[p] \in {"NetworkError", "DeadStatus", "SoftNotFound"}}

\* C16: every occurrence that passes is_valid_url is probed with exactly one
\* GET request; a probe that ends in a network error, a non-200 status or a
\* soft 404 is not issued again, it only keeps the URL out of valid_urls,
\* and the loop goes on to the remaining occurrences.
C16_ProbedExactlyOnce ==
  /\ \A p \in Positions : probes[p] <= 1
  /\ \A p \in Positions :
        (is_valid_url(urls[p]) /\ (p < i \/ (p = i /\ pc \in {"probing", "probed"})))
          => probes[p] = 1
  /\ \A p \in FailedProbes :
        /\ probes[p] = 1
        /\ p < i => Len(valid_urls) = Cardinality({q \in 1..(i - 1) : verdict[q] = "Alive"})
  /\ pc \notin {"loop", "probing", "probed"} =>
        /\ i = Len(urls) + 1
        /\ \A p \in Positions : is_valid_url(urls[p]) => probes[p] = 1

\* the probe of the first occurrence failed, the second occurrence was
\* probed all the same and is being fetched
C16_Witness ==
  /\ Len(urls) = 2
  /\ 1 \in FailedProbes
  /\ probes[1] = 1
  /\ verdict[2] = "Alive"
  /\ probes[2] = 1
  /\ pc = "gather"
  /\ valid_urls = <<urls[2]>>

\* C17: flatten and the write to the sink happen only after every launched
\* task has completed: in no state is the Dataset built or written while a
\* task is still running, and the write step is taken at most once, from a
\* state in which nothing has been written.
C17_JoinBeforeAggregate ==
  /\ []((flat_data # <<>> \/ sink # "none" \/ Finished) =>
          /\ tasks # <<>>
          /\ \A k \in TaskIds : tasks[k].st = "done"
          /\ Len(res) = Len(tasks))
  /\ [][/\ sink # "none" => (sink' = sink /\ flat_data' = flat_data)
        /\ pc' = "done_saved" => (pc = "gather" /\ sink = "none")]_vars

\* two tasks have completed and their records have been written
C17_Witness ==
  /\ pc = "done_saved"
  /\ sink = "written"
  /\ Len(tasks) = 2
  /\ \A k \in TaskIds : tasks[k].st = "done"
  /\ flat_data # <<>>

\* C18: at most one probe is in flight at any time, a probe is issued only
\* when the probes of all earlier occurrences have finished, and no fetch
\* request is issued before every input occurrence has been classified.
C18_StageBarrier ==
  /\ Cardinality(InFlightProbes) <= 1
  /\ InFlightProbes = (IF pc = "probing" THEN {i} ELSE {})
  /\ \A p \in Positions : \A q \in Positions :
        (p < q /\ probes[q] > 0) => verdict[p] \notin {"Unchecked", "SyntaxValid"}
  /\ tasks # <<>> =>
        \A p \in Positions : verdict[p] \notin {"Unchecked", "SyntaxValid"}

\* two occurrences have been probed one after the other and the fetch
\* requests of the survivors are in flight
C18_Witness ==
  /\ Len(urls) = 2
  /\ \A p \in Positions : probes[p] = 1
  /\ pc = "gather"
  /\ \E k \in TaskIds : tasks[k].st = "requesting"
  /\ res = <<>>

RECURSIVE RecordsOfUrl(_, _)
\* the records that the occurrences of u among the first n positions
\* contribute, occurrence after occurrence
RecordsOfUrl(u, n) ==
  IF n = 0 THEN <<>>
  ELSE RecordsOfUrl(u, n - 1) \o
       (IF urls[n] = u /\ verdict[n] = "Alive" THEN ResultOf(TaskOf(n)) ELSE <<>>)

\* C19: a URL that occurs several times is probed once per occurrence, gets
\* one task per occurrence classified Alive, and the Dataset holds the
\* records of every one of these tasks, each group at the place of its
\* occurrence; nothing is merged, dropped or reordered.
C19_NoDeduplication ==
  \A u \in {urls[p] : p \in Positions} :
    LET occ == {p \in Positions : urls[p] = u}
        alive == {p \in occ : verdict[p] = "Alive"}
    IN  /\ (i > Len(urls) /\ is_valid_url(u)) => \A p \in occ : probes[p] = 1
        /\ tasks # <<>> =>
              Cardinality({k \in TaskIds : valid_urls[k] = u}) = Cardinality(alive)
        /\ Finished =>
              /\ SelectSeq(flat_data, LAMBDA r : r.url = u) = RecordsOfUrl(u, Len(urls))
              /\ flat_data = ByPosition(Len(urls))

\* the same URL was submitted twice, both occurrences were fetched, the
\* two tasks returned different records and the Dataset holds both groups
C19_Witness ==
  /\ Len(urls) = 2
  /\ urls[1] = urls[2]
  /\ \A p \in Positions : verdict[p] = "Alive" /\ probes[p] = 1
  /\ Len(tasks) = 2
  /\ Finished
  /\ ResultOf(1) # <<>>
  /\ ResultOf(2) # <<>>
  /\ ResultOf(1) # ResultOf(2)
  /\ flat_data = ResultOf(1) \o ResultOf(2)

====
